---- MODULE Spec2Model ----
(***************************************************************************)
(* Model of quadcopter_model.py: class Quadcopter, its dynamics            *)
(* (_integrator and the helpers it calls) and the piecewise driver         *)
(* update_state.                                                           *)
(*                                                                         *)
(* Numbers.  The program computes in float64; the model computes in        *)
(* integers, each quantity in a fixed unit:                                *)
(*   time                       tick  = 0.5 ms  (so that _dt = 2 ticks and *)
(*                                     durations that are not a multiple   *)
(*                                     of _dt can be written)              *)
(*   position / orientation     1e-9 m   / 1e-9 rad                        *)
(*   velocity / ang_velocity    1e-6 m/s / 1e-6 rad/s                      *)
(*   acceleration / ang. acc.   1e-3 m/s^2 / 1e-3 rad/s^2                  *)
(*   collective thrust          1e-3 N                                     *)
(*   moments                    1e-7 N m                                   *)
(*   motor thrusts              1e-3 N / ThrustDen                         *)
(*   sin, cos, matrix entries   1 / TrigScale                              *)
(* With these units one millisecond of a derivative is one unit of the     *)
(* state, and every quotient of motor_thrust is exact.  A product of two   *)
(* scaled numbers is divided back to its unit (Rescale, MatVec, Mul); that *)
(* division rounds down, which stands for the rounding of float64.         *)
(***************************************************************************)
EXTENDS Integers, Sequences, FiniteSets, TLC

VARIABLES
    save_state,      \* self.save_state
    state,           \* self.state: position, velocity, orientation, ang_velocity
    _euler_dot,      \* self._euler_dot (<<>> until update_state creates it)
    pc,              \* position of update_state: idle, loop, returned, raised
    piecewise_args,  \* the argument of the running / last update_state
    k,               \* 1-based position of the for loop in piecewise_args
    final_state,     \* local final_state
    index,           \* local index
    ret,             \* the value update_state returned
    entry_state,     \* self.state when update_state was entered
    odeint_calls,    \* calls of odeint made by the running / last update_state
    segments_run,    \* sections handed to update_state so far (bounded)
    mix_pc,          \* position of the stand-alone motor_thrust call
    mix_moments,     \* its argument moments
    mix_ct,          \* its argument coll_thrust
    mix_thrust       \* its result

vars == <<save_state, state, _euler_dot, pc, piecewise_args, k, final_state,
          index, ret, entry_state, odeint_calls, segments_run,
          mix_pc, mix_moments, mix_ct, mix_thrust>>

---------------------------------------------------------------------------
(* Configuration, __init__ *)

gravity == 9806

mass == 468

length == 170

inertia == <<23, 23, 46>>

thrustToDrag == 16

TicksPerMs == 2

_dt == 1 * TicksPerMs

Margin == 100

TrigScale == 10000

ThrustDen == 54400

MomentDen == ThrustDen \div 10

---------------------------------------------------------------------------
(* Arithmetic on 3-vectors and 3x3 matrices *)

Zero3 == <<0, 0, 0>>

VAdd(a, b) == <<a[1] + b[1], a[2] + b[2], a[3] + b[3]>>

VSub(a, b) == <<a[1] - b[1], a[2] - b[2], a[3] - b[3]>>

Rescale(a, s) == <<a[1] \div s, a[2] \div s, a[3] \div s>>

Cross(a, b) ==
    <<a[2] * b[3] - a[3] * b[2],
      a[3] * b[1] - a[1] * b[3],
      a[1] * b[2] - a[2] * b[1]>>

Mul(a, b) == (a * b) \div TrigScale

MatVec(m, x) ==
    <<(m[1][1] * x[1]) \div TrigScale + (m[1][2] * x[2]) \div TrigScale
          + (m[1][3] * x[3]) \div TrigScale,
      (m[2][1] * x[1]) \div TrigScale + (m[2][2] * x[2]) \div TrigScale
          + (m[2][3] * x[3]) \div TrigScale,
      (m[3][1] * x[1]) \div TrigScale + (m[3][2] * x[2]) \div TrigScale
          + (m[3][3] * x[3]) \div TrigScale>>

Sum4(t) == t[1] + t[2] + t[3] + t[4]

\* np.sin, np.cos of an angle in 1e-9 rad, by their Taylor polynomials
Sin(x) ==
    LET y == x \div (1000000000 \div TrigScale)
    IN  y - (Mul(y, y) * y) \div (6 * TrigScale)

Cos(x) ==
    LET y == x \div (1000000000 \div TrigScale)
        y2 == Mul(y, y)
    IN  TrigScale - y2 \div 2 + Mul(y2, y2) \div 24

\* np.linalg.inv of a 3x3 matrix: adjugate over determinant
Inv3(m) ==
    LET c11 == Mul(m[2][2], m[3][3]) - Mul(m[2][3], m[3][2])
        c12 == Mul(m[2][3], m[3][1]) - Mul(m[2][1], m[3][3])
        c13 == Mul(m[2][1], m[3][2]) - Mul(m[2][2], m[3][1])
        c21 == Mul(m[1][3], m[3][2]) - Mul(m[1][2], m[3][3])
        c22 == Mul(m[1][1], m[3][3]) - Mul(m[1][3], m[3][1])
        c23 == Mul(m[1][2], m[3][1]) - Mul(m[1][1], m[3][2])
        c31 == Mul(m[1][2], m[2][3]) - Mul(m[1][3], m[2][2])
        c32 == Mul(m[1][3], m[2][1]) - Mul(m[1][1], m[2][3])
        c33 == Mul(m[1][1], m[2][2]) - Mul(m[1][2], m[2][1])
        det == Mul(m[1][1], c11) + Mul(m[1][2], c12) + Mul(m[1][3], c13)
    IN  <<<<(c11 * TrigScale) \div det, (c21 * TrigScale) \div det,
            (c31 * TrigScale) \div det>>,
          <<(c12 * TrigScale) \div det, (c22 * TrigScale) \div det,
            (c32 * TrigScale) \div det>>,
          <<(c13 * TrigScale) \div det, (c23 * TrigScale) \div det,
            (c33 * TrigScale) \div det>>>>

---------------------------------------------------------------------------
(* The dynamics *)

\* initialize_state
initialize_state ==
    [position |-> Zero3, velocity |-> Zero3,
     orientation |-> Zero3, ang_velocity |-> Zero3]

\* inertia_matrix = np.diag(inertia)
inertia_matrix ==
    <<<<inertia[1], 0, 0>>, <<0, inertia[2], 0>>, <<0, 0, inertia[3]>>>>

\* np.dot(self.inertia_matrix, x): the matrix is diagonal
inertia_dot(x) ==
    <<inertia_matrix[1][1] * x[1], inertia_matrix[2][2] * x[2],
      inertia_matrix[3][3] * x[3]>>

\* np.dot(np.linalg.inv(self.inertia_matrix), x): the inverse of a diagonal
\* matrix is the diagonal of the reciprocals
inverse_inertia_dot(x) ==
    <<x[1] \div inertia_matrix[1][1], x[2] \div inertia_matrix[2][2],
      x[3] \div inertia_matrix[3][3]>>

\* motor_thrust with temp2p = mp / length: the factor 2 is lost
motor_thrust_half(moments_, coll_thrust) ==
    LET mp == moments_[1]
        mq == moments_[2]
        mr == moments_[3]
        temp1add == coll_thrust * ThrustDen + mr * (MomentDen \div thrustToDrag)
        temp1sub == coll_thrust * ThrustDen - mr * (MomentDen \div thrustToDrag)
        temp2p == mp * (MomentDen \div length)
        temp2q == mq * (MomentDen \div length)
    IN  <<(temp1add - temp2q) \div 4, (temp1sub + temp2p) \div 4,
          (temp1add + temp2q) \div 4, (temp1sub - temp2p) \div 4>>

motor_thrust(moments_, coll_thrust) ==
    LET mp == moments_[1]
        mq == moments_[2]
        mr == moments_[3]
        temp1add == coll_thrust * ThrustDen + mr * (MomentDen \div thrustToDrag)
        temp1sub == coll_thrust * ThrustDen - mr * (MomentDen \div thrustToDrag)
        temp2p == 2 * mp * (MomentDen \div length)
        temp2q == 2 * mq * (MomentDen \div length)
    IN  <<(temp1add - temp2q) \div 4, (temp1sub + temp2p) \div 4,
          (temp1add + temp2q) \div 4, (temp1sub - temp2p) \div 4>>

angular_rotation_matrix(euler_angles) ==
    LET phi == euler_angles[1]
        theta == euler_angles[2]
        psi == euler_angles[3]
    IN  <<<<TrigScale, 0, -Sin(theta)>>,
          <<0, Cos(phi), Mul(Cos(theta), Sin(phi))>>,
          <<0, -Sin(psi), Mul(Cos(theta), Cos(phi))>>>>

rotation_matrix(euler_angles) ==
    LET cphi == Cos(euler_angles[1])
        sphi == Sin(euler_angles[1])
        cthe == Cos(euler_angles[2])
        sthe == Sin(euler_angles[2])
        cpsi == Cos(euler_angles[3])
        spsi == Sin(euler_angles[3])
    IN  <<<<Mul(cthe, cpsi), Mul(Mul(sphi, sthe), cpsi) - Mul(cphi, spsi),
            Mul(Mul(cphi, sthe), cpsi) + Mul(sphi, spsi)>>,
          <<Mul(cthe, spsi), Mul(Mul(sphi, sthe), spsi) + Mul(cphi, cpsi),
            Mul(Mul(cphi, sthe), spsi) - Mul(sphi, cpsi)>>,
          <<-sthe, Mul(cthe, sphi), Mul(cthe, cphi)>>>>

dt_eulerangles_to_angular_velocity(dtEuler, euler_angles) ==
    MatVec(angular_rotation_matrix(euler_angles), dtEuler)

acceleration(thrusts, euler_angles) ==
    LET force_z_body == ((Sum4(thrusts) \div ThrustDen) * 1000) \div mass
        force_body == <<0, 0, force_z_body>>
    IN  VSub(MatVec(rotation_matrix(euler_angles), force_body),
             <<0, 0, gravity>>)

\* thrust_matrix of angular_acceleration: the net moments of the thrusts
thrust_matrix(thrust) ==
    <<(length * (thrust[2] - thrust[4])) \div MomentDen,
      (length * (thrust[3] - thrust[1])) \div MomentDen,
      (thrustToDrag * (thrust[1] - thrust[2] + thrust[3] - thrust[4]))
          \div MomentDen>>

angular_acceleration(omega, thrust) ==
    LET part1 == inverse_inertia_dot(thrust_matrix(thrust))
        part2 == inverse_inertia_dot(omega)
        part3 == Rescale(inertia_dot(omega), 1000)
        cross == Rescale(Cross(part2, part3), 1000000)
    IN  VSub(part1, cross)

angular_velocity_to_dt_eulerangles(omega, euler_angles) ==
    MatVec(Inv3(angular_rotation_matrix(euler_angles)), omega)

moments(desired_acc, angular_vel) ==
    LET part1 == inverse_inertia_dot(angular_vel)
        part2 == Rescale(inertia_dot(angular_vel), 1000)
        cross == Rescale(Cross(part1, part2), 1000000)
        value == VAdd(desired_acc, cross)
    IN  inertia_dot(value)

---------------------------------------------------------------------------
(* _integrator, the callback of odeint *)

\* omega as the disabled line of _integrator computes it, from the carried
\* Euler rates
integrator_omega_from_rates(state_, euler_dot) ==
    dt_eulerangles_to_angular_velocity(euler_dot, SubSeq(state_, 7, 9))

\* omega = state[9:12]; the carried self._euler_dot is read and not used
integrator_omega(state_, euler_dot) == SubSeq(state_, 10, 12)

\* return np.concatenate((velocity, acc, euler_dot, omega_dot)), with the
\* value self._euler_dot = euler_dot has left in the object
integrator_return(velocity, acc, euler_dot, omega_dot) ==
    [deriv |-> velocity \o acc \o euler_dot \o omega_dot,
     _euler_dot |-> euler_dot]

\* The derivative, and the value left in self._euler_dot
_integrator(state_, t, coll_thrust, desired_angular_acc, carried) ==
    LET velocity == SubSeq(state_, 4, 6)
        euler == SubSeq(state_, 7, 9)
        omega == integrator_omega(state_, carried)
        moments_ == moments(desired_angular_acc, omega)
        thrusts == motor_thrust(moments_, coll_thrust)
        acc == acceleration(thrusts, euler)
        omega_dot == angular_acceleration(omega, thrusts)
        euler_dot == angular_velocity_to_dt_eulerangles(omega, euler)
    IN  integrator_return(velocity, acc, euler_dot, omega_dot)

\* scipy.integrate.odeint(self._integrator, state, ts, args) returns one row
\* per entry of ts, the first row the initial state.  Each later row is the
\* row before it advanced by one evaluation of the callback over the
\* interval.  sol is the rows so far with the value the callback has left in
\* self._euler_dot.
odeint_push(sol, y, h, f) ==
    [output |-> Append(sol.output,
                       <<y[1] + (f.deriv[1] * h) \div TicksPerMs,
                         y[2] + (f.deriv[2] * h) \div TicksPerMs,
                         y[3] + (f.deriv[3] * h) \div TicksPerMs,
                         y[4] + (f.deriv[4] * h) \div TicksPerMs,
                         y[5] + (f.deriv[5] * h) \div TicksPerMs,
                         y[6] + (f.deriv[6] * h) \div TicksPerMs,
                         y[7] + (f.deriv[7] * h) \div TicksPerMs,
                         y[8] + (f.deriv[8] * h) \div TicksPerMs,
                         y[9] + (f.deriv[9] * h) \div TicksPerMs,
                         y[10] + (f.deriv[10] * h) \div TicksPerMs,
                         y[11] + (f.deriv[11] * h) \div TicksPerMs,
                         y[12] + (f.deriv[12] * h) \div TicksPerMs>>),
     _euler_dot |-> f._euler_dot]

\* sol with the row of ts[i + 1]
odeint_step(sol, ts, i, coll_thrust, desired_angular_acc) ==
    odeint_push(sol, sol.output[i], ts[i + 1] - ts[i],
                _integrator(sol.output[i], ts[i], coll_thrust,
                            desired_angular_acc, sol._euler_dot))

\* sol, which holds the rows of ts[1..lo], with the rows of ts[lo+1..hi]
\* (the rows of ts[1..Len(sol.output)] are never computed again)
RECURSIVE odeint_rows(_, _, _, _, _, _)
odeint_rows(sol, ts, lo, hi, coll_thrust, desired_angular_acc) ==
    IF Len(sol.output) >= hi THEN sol
    ELSE IF hi = lo + 1
    THEN odeint_step(sol, ts, lo, coll_thrust, desired_angular_acc)
    ELSE odeint_rows(odeint_rows(sol, ts, lo, (lo + hi) \div 2,
                                 coll_thrust, desired_angular_acc),
                     ts, (lo + hi) \div 2, hi,
                     coll_thrust, desired_angular_acc)

odeint(y0, ts, coll_thrust, desired_angular_acc, carried) ==
    odeint_rows([output |-> <<y0>>, _euler_dot |-> carried], ts, 1, Len(ts),
                coll_thrust, desired_angular_acc)

---------------------------------------------------------------------------
(* update_state *)

ZeroRow == <<0, 0, 0, 0, 0, 0, 0, 0, 0, 0, 0, 0>>

\* np.zeros([n, 12]).  An array of n rows is held as its length and the
\* rows up to the last one written; the rows after them are still zero.
zeros(n) == [length |-> n, rows |-> <<>>]

\* final_state[i - 1], 1 <= i <= length
buffer_row(final_state_, i) ==
    IF i <= Len(final_state_.rows) THEN final_state_.rows[i] ELSE ZeroRow

\* the empty list final_state = []
empty_list == [length |-> 0, rows |-> <<>>]

\* np.arange(start, stop, step), step > 0
arange(start, stop, step) ==
    LET n == IF stop <= start THEN 0
             ELSE (stop - start + step - 1) \div step
    IN  [i \in 1..n |-> start + (i - 1) * step]

RECURSIVE overall_time(_)
overall_time(args) ==
    IF args = <<>> THEN 0 ELSE args[1][3] + overall_time(Tail(args))

overall_length(args) ==
    Len(arange(0, overall_time(args), _dt)) - (Len(args) - 1)

\* the length of the buffer np.zeros([overall_length + 100, 12])
buffer_length(args) == overall_length(args) + Margin

\* the skip test with one step in place of two
is_skipped_one_step(t) == t < _dt

\* if t < (2 * self._dt): continue
is_skipped(t) == t < 2 * _dt

\* np.concatenate((position, velocity, orientation, ang_velocity))
concatenate(s) == s.position \o s.velocity \o s.orientation \o s.ang_velocity

\* np.split(row, 4)
split(row) ==
    [position |-> SubSeq(row, 1, 3), velocity |-> SubSeq(row, 4, 6),
     orientation |-> SubSeq(row, 7, 9), ang_velocity |-> SubSeq(row, 10, 12)]

\* the row of output the state is taken from, were it the row before the last
state_row_before_last(output_length) == output_length - 1

\* output[output_length - 1], 1-based
state_row(output_length) == output_length

\* the write index advanced past the last row written
next_index_past(index_, output_length) == index_ + output_length

\* index = index + output_length - 1
next_index(index_, output_length) == index_ + output_length - 1

\* final_state[index:(index + output_length)] = output; the rows fit
write_rows(final_state_, index_, output) ==
    LET last == IF index_ + Len(output) > Len(final_state_.rows)
                THEN index_ + Len(output) ELSE Len(final_state_.rows)
    IN  [final_state_ EXCEPT !.rows =
            [i \in 1..last |->
                IF i > index_ /\ i <= index_ + Len(output)
                THEN output[i - index_] ELSE buffer_row(final_state_, i)]]

\* The frame of update_state after its lines before the loop
begin_frame(state_, save, args) ==
    [state |-> state_,
     _euler_dot |-> Zero3,
     final_state |-> IF save /\ buffer_length(args) >= 0
                     THEN zeros(buffer_length(args)) ELSE empty_list,
     index |-> 0,
     odeint_calls |-> 0,
     pc |-> IF save /\ buffer_length(args) < 0 THEN "raised" ELSE "loop"]

\* The loop body after odeint has returned sol: the state is updated and,
\* when saving, the rows are written and the index advanced
store_output(fr, save, sol) ==
    LET output == sol.output
        output_length == Len(output)
        moved == [fr EXCEPT !.state = split(output[state_row(output_length)]),
                            !._euler_dot = sol._euler_dot,
                            !.odeint_calls = @ + 1]
    IN  IF ~save THEN moved
        ELSE IF fr.index + output_length > fr.final_state.length
        THEN [moved EXCEPT !.pc = "raised"]
        ELSE [moved EXCEPT
                 !.final_state = write_rows(fr.final_state, fr.index, output),
                 !.index = next_index(fr.index, output_length)]

\* The frame after one passage of the loop body over section
run_section(fr, save, section) ==
    LET coll_thrust == section[1]
        desired_angular_acc == section[2]
        t == section[3]
    IN  IF is_skipped(t) THEN fr
        ELSE store_output(fr, save,
                 odeint(concatenate(fr.state), arange(0, t, _dt), coll_thrust,
                        desired_angular_acc, fr._euler_dot))

\* The loop from section i on
RECURSIVE run_sections(_, _, _, _)
run_sections(fr, save, args, i) ==
    IF fr.pc = "raised" \/ i > Len(args) THEN fr
    ELSE run_sections(run_section(fr, save, args[i]), save, args, i + 1)

\* update_state as a function of the state it starts from: the frame it ends in
update_state(state_, save, args) ==
    run_sections(begin_frame(state_, save, args), save, args, 1)

---------------------------------------------------------------------------
(* The calls made on one Quadcopter *)

MaxSegs == 3

\* zero thrust, zero desired angular acceleration, 5 steps
FreeFall == <<0, Zero3, 5 * _dt>>

\* the shortest section that is integrated: exactly 2 steps
Turn == <<4000, <<10000, -10000, 5000>>, 2 * _dt>>

\* two and a half steps: three rows
Roll == <<4000, <<10000, 0, 0>>, (5 * _dt) \div 2>>

\* below 2 steps, with thrust and angular acceleration
Short == <<4000, <<0, 10000, 5000>>, (3 * _dt) \div 2>>

\* a negative duration
Negative == <<0, Zero3, -(2 * Margin * _dt)>>

\* as many rows as the margin; the duration is no multiple of _dt
Long == <<4000, Zero3, Margin * _dt - _dt \div 2>>

Segments == {FreeFall, Turn, Roll, Short, Negative, Long}

ArgLists == UNION {[1..n -> Segments] : n \in 0..MaxSegs}

frame ==
    [state |-> state, _euler_dot |-> _euler_dot, final_state |-> final_state,
     index |-> index, odeint_calls |-> odeint_calls, pc |-> pc]

mix_idle ==
    /\ mix_pc = "off"
    /\ mix_moments = Zero3
    /\ mix_ct = 0
    /\ mix_thrust = <<>>

\* Quadcopter(save_state): __init__ and initialize_state
Init ==
    /\ save_state \in BOOLEAN
    /\ state = initialize_state
    /\ _euler_dot = <<>>
    /\ pc = "idle"
    /\ piecewise_args = <<>>
    /\ k = 0
    /\ final_state = empty_list
    /\ index = 0
    /\ ret = empty_list
    /\ entry_state = initialize_state
    /\ odeint_calls = 0
    /\ segments_run = 0
    /\ mix_idle

\* update_state(args) up to the loop
update_state_begin(args) ==
    /\ pc \in {"idle", "returned", "raised"}
    /\ segments_run + Len(args) <= MaxSegs
    /\ \E fr \in {begin_frame(state, save_state, args)} :
           /\ _euler_dot' = fr._euler_dot
           /\ final_state' = fr.final_state
           /\ index' = fr.index
           /\ odeint_calls' = fr.odeint_calls
           /\ pc' = fr.pc
    /\ piecewise_args' = args
    /\ k' = 1
    /\ ret' = empty_list
    /\ entry_state' = state
    /\ segments_run' = segments_run + Len(args)
    /\ UNCHANGED <<save_state, state, mix_pc, mix_moments, mix_ct, mix_thrust>>

\* one passage of the loop: a section that is skipped
section_skip ==
    /\ pc = "loop"
    /\ k <= Len(piecewise_args)
    /\ is_skipped(piecewise_args[k][3])
    /\ k' = k + 1
    /\ UNCHANGED <<save_state, state, _euler_dot, pc, piecewise_args,
                   final_state, index, ret, entry_state, odeint_calls,
                   segments_run, mix_pc, mix_moments, mix_ct, mix_thrust>>

\* one passage of the loop: a section that is integrated
section_run ==
    /\ pc = "loop"
    /\ k <= Len(piecewise_args)
    /\ ~is_skipped(piecewise_args[k][3])
    /\ \E fr \in {run_section(frame, save_state, piecewise_args[k])} :
           /\ state' = fr.state
           /\ _euler_dot' = fr._euler_dot
           /\ final_state' = fr.final_state
           /\ index' = fr.index
           /\ odeint_calls' = fr.odeint_calls
           /\ pc' = fr.pc
    /\ k' = k + 1
    /\ UNCHANGED <<save_state, piecewise_args, ret, entry_state, segments_run,
                   mix_pc, mix_moments, mix_ct, mix_thrust>>

\* return final_state
update_state_return ==
    /\ pc = "loop"
    /\ k > Len(piecewise_args)
    /\ ret' = final_state
    /\ final_state' = empty_list
    /\ pc' = "returned"
    /\ UNCHANGED <<save_state, state, _euler_dot, piecewise_args, k, index,
                   entry_state, odeint_calls, segments_run,
                   mix_pc, mix_moments, mix_ct, mix_thrust>>

Next ==
    \/ \E args \in ArgLists : update_state_begin(args)
    \/ section_skip
    \/ section_run
    \/ update_state_return

Spec == Init /\ [][Next]_vars

---------------------------------------------------------------------------
(* motor_thrust called on its own *)

MaxMoment == 1

MixMoments == {m * w : m \in -MaxMoment..MaxMoment, w \in {1, 115000}}

MixThrusts == {0, 1, 4000}

MixInit ==
    /\ save_state \in BOOLEAN
    /\ state = initialize_state
    /\ _euler_dot = <<>>
    /\ pc = "idle"
    /\ piecewise_args = <<>>
    /\ k = 0
    /\ final_state = empty_list
    /\ index = 0
    /\ ret = empty_list
    /\ entry_state = initialize_state
    /\ odeint_calls = 0
    /\ segments_run = 0
    /\ mix_pc = "ready"
    /\ mix_moments \in MixMoments \X MixMoments \X MixMoments
    /\ mix_ct \in MixThrusts
    /\ mix_thrust = <<>>

\* thrust = self.motor_thrust(moments, coll_thrust)
motor_thrust_call ==
    /\ mix_pc = "ready"
    /\ mix_thrust' = motor_thrust(mix_moments, mix_ct)
    /\ mix_pc' = "done"
    /\ UNCHANGED <<save_state, state, _euler_dot, pc, piecewise_args, k,
                   final_state, index, ret, entry_state, odeint_calls,
                   segments_run, mix_moments, mix_ct>>

MixNext == motor_thrust_call

SpecMix == MixInit /\ [][MixNext]_vars

---------------------------------------------------------------------------
(* Properties *)

\* rows(s): the number of sample times 0, dt, 2dt, ... < t
rows(t) == Len(arange(0, t, _dt))

\* the section the loop is about to handle
at_section == pc = "loop" /\ k <= Len(piecewise_args)

\* the trajectory: the buffer while the loop runs, the returned value after
saved == IF pc = "returned" THEN ret ELSE final_state

\* C1: with saving enabled, update_state on two consecutive non-skipped
\* segments returns rows(segment1) + rows(segment2) - 1 rows: one row per
\* integration sample and no trailing unused rows.
C1_ReturnedRowCount ==
    (/\ pc = "returned"
     /\ save_state
     /\ Len(piecewise_args) = 2
     /\ ~is_skipped(piecewise_args[1][3])
     /\ ~is_skipped(piecewise_args[2][3]))
        => ret.length = rows(piecewise_args[1][3]) + rows(piecewise_args[2][3]) - 1

C3_SkippedSegmentIsInert ==
    [][(at_section /\ piecewise_args[k][3] < 2 * _dt)
          => /\ state' = state
             /\ odeint_calls' = odeint_calls
             /\ index' = index
             /\ final_state' = final_state
             /\ piecewise_args' = piecewise_args
             /\ k' = k + 1
             /\ pc' = "loop"]_vars

C3_Witness ==
    /\ pc = "returned"
    /\ Len(piecewise_args) = 3
    /\ piecewise_args[2] = Short
    /\ ~is_skipped(piecewise_args[1][3])
    /\ ~is_skipped(piecewise_args[3][3])
    /\ odeint_calls = 2

\* C4: degenerate segments (duration below 2*dt, zero or negative) never
\* make update_state raise, with saving enabled or disabled.
C4_NeverRaises == pc # "raised"

\* C5: from rest, one segment of zero thrust and zero desired angular
\* acceleration of duration 5*dt leaves the vertical velocity at
\* -gravity * 5*dt, within a hundredth of one step's change.
C5_FreeFallVelocity ==
    (/\ pc = "returned"
     /\ entry_state = initialize_state
     /\ piecewise_args = <<FreeFall>>)
        => LET expected == -((gravity * FreeFall[3]) \div TicksPerMs)
               error == state.velocity[3] - expected
           IN  error <= gravity \div 100 /\ -error <= gravity \div 100

\* C6: with save_state false update_state returns the empty sequence, and
\* the state it leaves is the one the same call from the same state leaves
\* with save_state true.
C6_SavingDoesNotChangeState ==
    (pc = "returned" /\ ~save_state)
        => /\ ret = empty_list
           /\ state = update_state(entry_state, TRUE, piecewise_args).state

\* C7: motor_thrust followed by the net moments of the thrusts gives back
\* the moments, and the four thrusts add up to the collective thrust,
\* exactly.
C7_MotorThrustRoundTrip ==
    mix_pc = "done"
        => /\ length * (mix_thrust[2] - mix_thrust[4]) = mix_moments[1] * MomentDen
           /\ length * (mix_thrust[3] - mix_thrust[1]) = mix_moments[2] * MomentDen
           /\ thrustToDrag * (mix_thrust[1] - mix_thrust[2]
                                + mix_thrust[3] - mix_thrust[4])
                  = mix_moments[3] * MomentDen
           /\ Sum4(mix_thrust) = mix_ct * ThrustDen
           /\ thrust_matrix(mix_thrust) = mix_moments

C7_Witness ==
    /\ mix_pc = "done"
    /\ mix_moments = <<115000, -1, -115000>>
    /\ mix_ct = 4000
    /\ mix_thrust[1] # mix_thrust[2]

\* C8: when a later non-skipped segment is written, the first row of its
\* output is the row already stored at the write index, so no stored row
\* changes; its other rows follow, and the write index moves to its last row.
C8_BoundaryRowShared ==
    [][(/\ at_section
        /\ save_state
        /\ ~is_skipped(piecewise_args[k][3])
        /\ odeint_calls > 0
        /\ pc' = "loop")
          => /\ buffer_row(final_state, index + 1) = concatenate(state)
             /\ \A i \in 1..(index + 1) :
                    buffer_row(final_state', i) = buffer_row(final_state, i)
             /\ Len(final_state'.rows) = index + rows(piecewise_args[k][3])
             /\ index' = index + rows(piecewise_args[k][3]) - 1]_vars

C8_Witness ==
    /\ pc = "loop"
    /\ save_state
    /\ k = 4
    /\ is_skipped(piecewise_args[2][3])
    /\ odeint_calls = 2
    /\ index = rows(piecewise_args[1][3]) + rows(piecewise_args[3][3]) - 2
    /\ index > rows(piecewise_args[1][3])

\* C9: with saving enabled every copy of a segment's output fits in the
\* buffer: at each non-skipped segment, write index + rows returned is at
\* most the allocated length.
C9_WriteFits ==
    (at_section /\ save_state /\ ~is_skipped(piecewise_args[k][3]))
        => index + rows(piecewise_args[k][3]) <= final_state.length

\* values the carried Euler rates can hold
CarryValues ==
    {Zero3, <<1000, -2000, 3000>>, state.ang_velocity, state.velocity}

\* C10: the carried Euler rates do not feed back: with the same state,
\* thrust and desired angular acceleration _integrator returns the same
\* derivative for every carried value and leaves the Euler rates of that
\* call; and the rows odeint returns for a segment, and the value it leaves
\* carried, are the same when it starts with another carried value.
C10_CarryNeverRead ==
    (at_section /\ ~is_skipped(piecewise_args[k][3]))
        => LET y == concatenate(state)
               ts == arange(0, piecewise_args[k][3], _dt)
               ct == piecewise_args[k][1]
               da == piecewise_args[k][2]
               here == _integrator(y, 0, ct, da, _euler_dot)
           IN  /\ \A e \in CarryValues :
                      _integrator(y, 0, ct, da, e) = here
               /\ here._euler_dot = SubSeq(here.deriv, 7, 9)
               /\ odeint(y, ts, ct, da, <<1000, -2000, 3000>>)
                      = odeint(y, ts, ct, da, _euler_dot)

C10_Witness ==
    /\ at_section
    /\ ~is_skipped(piecewise_args[k][3])
    /\ _euler_dot # Zero3
    /\ state.ang_velocity # Zero3
    /\ odeint_calls > 0

====
